---- MODULE Spec2Model ----
(***************************************************************************)
(* Host-side kernel wrappers of ptypy/accelerate/cuda_pycuda/array_utils.py *)
(*                                                                         *)
(* Every wrapper method is one action: it reads its arguments, runs the    *)
(* whole method body and leaves in `call` the frame of the call: the       *)
(* arguments, the way it ended (outcome) and the ordered list of device    *)
(* events it issued (kernel launches, host-to-device uploads, device       *)
(* copies).  Return drops the frame.  The instance attributes that live    *)
(* across calls (Ctmp, fill3D_cuda, max_abs2_cuda, r, std, kernel_gpu) are *)
(* the other variables.                                                    *)
(*                                                                         *)
(* Standard deviations are held in tenths (std = S/10) so that the         *)
(* arithmetic of the radius is exact integer arithmetic.                   *)
(***************************************************************************)
EXTENDS Integers, Sequences, FiniteSets, TLC

VARIABLES
    Ctmp,          \* ArrayUtilsKernel.Ctmp: None or the scratch buffer
    fill3D_cuda,   \* CropPadKernel.fill3D_cuda: the versions that hold a kernel
    max_abs2_cuda, \* MaxAbs2Kernel.max_abs2_cuda: the entries of the variant cache
    asked,         \* the variants load_kernel has been asked for by fill3D and max_abs2
    num_stdevs,    \* GaussianSmoothingKernel.num_stdevs
    r,             \* GaussianSmoothingKernel.r
    std,           \* GaussianSmoothingKernel.std, in tenths
    kernel_gpu,    \* GaussianSmoothingKernel.kernel_gpu: what the tap buffer holds
    queue,         \* GaussianSmoothingKernel.queue: the launches the stream still holds
    buf,           \* what data and tmp of the convolution in steps hold on the device
    call           \* the frame of the call that runs or has just ended

vars ==
    <<Ctmp, fill3D_cuda, max_abs2_cuda, asked, num_stdevs, r, std, kernel_gpu, queue, buf,
      call>>

----------------------------------------------------------------------------
(* Bounds of the model *)

\* dot/norm2 inputs span at most this many blocks of 1024 elements
MaxBlocks == 3
\* crop/pad extents are 0..MaxExtent, offsets -MaxExtent..MaxExtent
MaxExtent == 2
\* convolution and mass_center extents are 1..MaxDim
MaxDim == 2
\* standard deviations 0.0 .. MaxStd/10 in steps of 0.1 (plus the large ones)
MaxStd == 4
\* whole parts of the shift components are -MaxShift..MaxShift
MaxShift == 1

----------------------------------------------------------------------------
(* Common helpers *)

None == [none |-> TRUE]

NoCall == [op |-> "none"]

RECURSIVE Prod(_)
\* np.prod of a shape tuple (1 for the empty tuple)
Prod(s) == IF s = <<>> THEN 1 ELSE Head(s) * Prod(Tail(s))

\* s[:-k] for 0 <= k
DropLast(s, k) == IF Len(s) <= k THEN <<>> ELSE SubSeq(s, 1, Len(s) - k)

\* s[-k:] for 0 < k <= len(s)
Last(s, k) == SubSeq(s, Len(s) - k + 1, Len(s))

\* (n + b - 1) // b
CeilDiv(n, b) == (n + b - 1) \div b

Max(a, b) == IF a >= b THEN a ELSE b

Min(a, b) == IF a <= b THEN a ELSE b

IsComplex(dt) == dt \in {"complex64", "complex128"}

\* The dtypes map2ctype knows
CTyped == {"float32", "float64", "complex64", "complex128", "int32", "int64"}

\* map2ctype: the C type of a numpy dtype; ValueError for any other
map2ctype(dt) ==
    CASE dt = "float32"    -> "float"
      [] dt = "float64"    -> "double"
      [] dt = "complex64"  -> "complex<float>"
      [] dt = "complex128" -> "complex<double>"
      [] dt = "int32"      -> "int"
      [] dt = "int64"      -> "long long"
      [] OTHER             -> "ValueError"

\* A kernel launch enqueued on the instance's stream
Launch(kernel, grid, block, shared, a) ==
    [ev |-> "launch", kernel |-> kernel, grid |-> grid, block |-> block,
     shared |-> shared, a |-> a]

IsLaunch(e) == e.ev = "launch"

Launches(events) == SelectSeq(events, IsLaunch)

IsLoad(e) == e.ev = "load_kernel"

Loads(events) == SelectSeq(events, IsLoad)

\* the variants load_kernel is asked for in a call
Asked(events) ==
    {[name |-> Loads(events)[k].name, version |-> Loads(events)[k].version] :
        k \in DOMAIN Loads(events)}

----------------------------------------------------------------------------
(* ArrayUtilsKernel: dot, norm2 *)

\* elements per block of the dot kernel
BlockSize == 1024

\* acc_dtype of the constructor's default, and its element size
acc_dtype == "float64"

elsize == IF acc_dtype = "float32" THEN 4 ELSE 8

DotSizes == {n \in 0..(MaxBlocks * BlockSize) : n % BlockSize \in {0, 1, BlockSize - 1}}

DotDtypes == {"float32", "complex64"}

DotArrays == [dtype : DotDtypes, size : DotSizes]

CtmpSize(c) == IF c = None THEN 0 ELSE c.size

CtmpId(c) == IF c = None THEN 0 ELSE c.id

\* line 53: grid[0]
DotGrid(B) == (B.size + (BlockSize - 1)) \div BlockSize

\* Faulty variant: the scratch buffer is replaced whenever its size differs
DotNeedsAlloc_Mismatch(c, g) == c = None \/ c.size # g

\* lines 58-59: the scratch buffer is replaced when missing or too small
DotNeedsAlloc(c, g) == c = None \/ c.size < g

DotScratch(c, g) ==
    IF DotNeedsAlloc(c, g) THEN [id |-> CtmpId(c) + 1, size |-> g] ELSE c

\* Faulty variant: phase 1 writes the scratch buffer whatever the grid
DotPhase1Dst_Scratch(g) == "Ctmp"

\* lines 60-62: where phase 1 writes
DotPhase1Dst(g) == IF g = 1 THEN "out" ELSE "Ctmp"

\* Faulty variant: only the dtypes are compared
DotArgsMatch_DtypeOnly(A, B) == A.dtype = B.dtype

\* lines 46-47: the two assertions on the arguments
DotArgsMatch(A, B) == A.dtype = B.dtype /\ A.size = B.size

\* lines 49-50, 58-59: the buffers the call allocates
DotAllocs(c, g, outGiven) ==
    (IF outGiven THEN <<>> ELSE <<[ev |-> "alloc", what |-> "out", size |-> 1]>>)
    \o (IF DotNeedsAlloc(c, g)
        THEN <<[ev |-> "alloc", what |-> "Ctmp", size |-> g]>>
        ELSE <<>>)

\* lines 63-76: the launches of one call
DotEvents(A, B, g) ==
    <<Launch(IF IsComplex(B.dtype) THEN "cdot_cuda" ELSE "dot_cuda",
             <<g, 1, 1>>, <<BlockSize, 1, 1>>, BlockSize * elsize,
             [n |-> A.size, dst |-> DotPhase1Dst(g)])>>
    \o (IF g > 1
        THEN <<Launch("full_reduce_cuda", <<1, 1, 1>>, <<BlockSize, 1, 1>>,
                      elsize * BlockSize,
                      [n |-> g, src |-> "Ctmp", dst |-> "out"])>>
        ELSE <<>>)

\* dot(A, B, out): the frame it leaves and the scratch buffer after it.
\* A launch over an empty grid (size 0) is refused by the driver.
dot(op, c, A, B, outGiven) ==
    LET frame == [op |-> op, A |-> A, B |-> B, outGiven |-> outGiven]
    IN  IF ~DotArgsMatch(A, B)
        THEN [Ctmp |-> c,
              call |-> frame @@ [outcome |-> "AssertionError", grid |-> -1,
                                 events |-> <<>>]]
        ELSE LET g == DotGrid(B)
                 c2 == DotScratch(c, g)
                 allocs == DotAllocs(c, g, outGiven)
             IN  IF g = 0
                 THEN [Ctmp |-> c2,
                       call |-> frame @@ [outcome |-> "LogicError", grid |-> g,
                                          events |-> allocs]]
                 ELSE [Ctmp |-> c2,
                       call |-> frame @@ [outcome |-> "ok", grid |-> g,
                                          events |-> allocs \o DotEvents(A, B, g)]]

Dot ==
    /\ call = NoCall
    /\ \E A \in DotArrays, B \in DotArrays, outGiven \in BOOLEAN :
         LET res == dot("dot", Ctmp, A, B, outGiven)
         IN  /\ Ctmp' = res.Ctmp
             /\ call' = res.call
    /\ UNCHANGED <<fill3D_cuda, max_abs2_cuda, asked, num_stdevs, queue, buf, r, std, kernel_gpu>>

\* norm2(A, out) is dot(A, A, out)
Norm2 ==
    /\ call = NoCall
    /\ \E A \in DotArrays, outGiven \in BOOLEAN :
         LET res == dot("norm2", Ctmp, A, A, outGiven)
         IN  /\ Ctmp' = res.Ctmp
             /\ call' = res.call
    /\ UNCHANGED <<fill3D_cuda, max_abs2_cuda, asked, num_stdevs, queue, buf, r, std, kernel_gpu>>

----------------------------------------------------------------------------
(* CropPadKernel: fill3D, crop_pad_2d_simple *)

\* block edge of the fill3D launch (bx = by = 32)
FillBlock == 32

Extents == 0..MaxExtent

Offsets == (0 - MaxExtent)..MaxExtent

\* A.shape[-3:], B.shape[-3:]
FillLim(X) == Last(X.shape, 3)

\* lines 179-180: Ao = off, negatives set to 0
FillAo(off) == [k \in 1..3 |-> IF off[k] < 0 THEN 0 ELSE off[k]]

\* lines 181-182: Bo = -off, negatives set to 0
FillBo(off) == [k \in 1..3 |-> IF 0 - off[k] < 0 THEN 0 ELSE 0 - off[k]]

\* Faulty variant: the overlap test with <= for <
FillHasOverlap_Inclusive(Ao, Bo, Alim, Blim) ==
    \A k \in 1..3 : Bo[k] <= Blim[k] /\ Ao[k] <= Alim[k]

\* line 183: (Bo < Blim).all() and (Ao < Alim).all()
FillHasOverlap(Ao, Bo, Alim, Blim) ==
    \A k \in 1..3 : Bo[k] < Blim[k] /\ Ao[k] < Alim[k]

\* lines 186-190
FillLengths(off, Ao, Alim, Blim) ==
    [k \in 1..3 |-> Min(off[k] + Blim[k], Alim[k]) - Ao[k]]

\* Faulty variant: the start in B is not taken off
FillLengths2_NoStart(off, Bo, Alim, Blim) ==
    [k \in 1..3 |-> Min(Alim[k] - off[k], Blim[k])]

\* lines 191-195
FillLengths2(off, Bo, Alim, Blim) ==
    [k \in 1..3 |-> Min(Alim[k] - off[k], Blim[k]) - Bo[k]]

\* line 200: the key of the kernel variant
FillVersion(A, B) == <<map2ctype(B.dtype), map2ctype(A.dtype)>>

\* Faulty variant: the two start vectors passed in each other's place
FillLaunchArgs_Swapped(A, B, Ao, Bo, lengths) ==
    [Alim |-> FillLim(A), Blim |-> FillLim(B),
     Ao |-> Bo, Bo |-> Ao, lengths |-> lengths]

\* lines 208-213: the scalar arguments of the launch
FillLaunchArgs(A, B, Ao, Bo, lengths) ==
    [Alim |-> FillLim(A), Blim |-> FillLim(B),
     Ao |-> Ao, Bo |-> Bo, lengths |-> lengths]

\* Faulty variant: the grid rounded down
FillGrid_Floor(lengths, batch) ==
    <<lengths[3] \div FillBlock, lengths[2] \div FillBlock, batch>>

\* lines 214-218: block and grid of the launch
FillGrid(lengths, batch) ==
    <<(lengths[3] + FillBlock - 1) \div FillBlock,
      (lengths[2] + FillBlock - 1) \div FillBlock,
      batch>>

\* fill3D(A, B, offset): the frame it leaves and the variant cache after it.
\* loadFails: whether load_kernel raises when it is asked for a variant.
fill3D(cache, A, B, offset, loadFails) ==
    LET frame == [op |-> "fill3D", A |-> A, B |-> B, offset |-> offset]
        end(c, how, msg, events) ==
            [cache |-> c,
             call |-> frame @@ [outcome |-> how, msg |-> msg, events |-> events]]
    IN  IF Len(A.shape) < 3 \/ Len(B.shape) < 3
        THEN end(cache, "ValueError", "at least 3D", <<>>)
        ELSE IF Len(A.shape) # Len(B.shape)
        THEN end(cache, "AssertionError", "same number of dimensions", <<>>)
        ELSE IF DropLast(A.shape, 3) # DropLast(B.shape, 3)
        THEN end(cache, "AssertionError", "same shape but last three", <<>>)
        ELSE
        LET Alim == FillLim(A)
            Blim == FillLim(B)
            Ao == FillAo(offset)
            Bo == FillBo(offset)
            lengths == FillLengths(offset, Ao, Alim, Blim)
            lengths2 == FillLengths2(offset, Bo, Alim, Blim)
            batch == Prod(DropLast(A.shape, 3))
            version == FillVersion(A, B)
            load == <<[ev |-> "load_kernel", name |-> "fill3D", version |-> version,
                       raised |-> loadFails]>>
            launch == <<Launch("fill3D", FillGrid(lengths, batch),
                               <<FillBlock, FillBlock, 1>>, 0,
                               FillLaunchArgs(A, B, Ao, Bo, lengths))>>
        IN  IF ~FillHasOverlap(Ao, Bo, Alim, Blim)
            THEN end(cache, "AssertionError", "lacks overlap", <<>>)
            ELSE IF lengths # lengths2
            THEN end(cache, "AssertionError", "lengths not matching", <<>>)
            ELSE IF "ValueError" \in {version[1], version[2]}
            THEN end(cache, "ValueError", "no mapping", <<>>)
            ELSE IF version \in cache
            THEN end(cache, "ok", "", launch)
            ELSE IF loadFails
            THEN end(cache, "CompilationFailure", "", load)
            ELSE end(cache \cup {version}, "ok", "", load \o launch)

\* Faulty variant: half of the difference for the difference of the halves
CropPadOffset_HalfDifference(a1, a2, b1, b2) ==
    <<0, (a1 - b1) \div 2, (a2 - b2) \div 2>>

\* Faulty variant: the halves subtracted the other way round
CropPadOffset_Swapped(a1, a2, b1, b2) ==
    <<0, (b1 \div 2) - (a1 \div 2), (b2 \div 2) - (a2 \div 2)>>

\* line 238: the offset that centers B in A on the last two axes
CropPadOffset(a1, a2, b1, b2) ==
    <<0, (a1 \div 2) - (b1 \div 2), (a2 \div 2) - (b2 \div 2)>>

\* lines 232-235: a 2D array is seen as a batch of one
CropPadReshape(X) ==
    IF Len(X.shape) = 2 THEN [X EXCEPT !.shape = <<1>> \o X.shape] ELSE X

\* crop_pad_2d_simple(A, B): its frame holds the frame of the fill3D call it makes
crop_pad_2d_simple(cache, A, B, loadFails) ==
    LET frame == [op |-> "crop_pad_2d_simple", A |-> A, B |-> B]
        fail(msg) ==
            [cache |-> cache,
             call |-> frame @@ [outcome |-> "AssertionError", msg |-> msg,
                                events |-> <<>>, inner |-> None]]
    IN  IF Len(A.shape) < 2 THEN fail("more than 2 dimensions")
        ELSE IF Len(A.shape) # Len(B.shape) THEN fail("same number of dimensions")
        ELSE IF DropLast(A.shape, 2) # DropLast(B.shape, 2)
        THEN fail("same shape but last two")
        ELSE
        LET A3 == CropPadReshape(A)
            B3 == CropPadReshape(B)
            a == Last(A3.shape, 2)
            b == Last(B3.shape, 2)
            res == fill3D(cache, A3, B3, CropPadOffset(a[1], a[2], b[1], b[2]),
                          loadFails)
        IN  [cache |-> res.cache,
             call |-> frame @@ [outcome |-> res.call.outcome, msg |-> res.call.msg,
                                events |-> res.call.events, inner |-> res.call]]

\* Arguments of the calls.  The box family varies the geometry of two 3D
\* arrays of one type; the type family varies rank, batch axis, types and the
\* kernel source provider over a few shapes.
FillBoxShapes == [1..3 -> Extents]

FillTypeShapes == {<<1, 1>>, <<1, 1, 1>>, <<1, 1, 1, 1>>, <<2, 1, 1, 1>>,
                   <<2, MaxExtent, MaxExtent, MaxExtent>>}

FillDtypePairs == {<<"complex64", "complex64">>, <<"float32", "complex64">>,
                   <<"float16", "complex64">>, <<"complex64", "float16">>}

Fill3DBox ==
    /\ call = NoCall
    /\ \E ash \in FillBoxShapes, bsh \in FillBoxShapes, offset \in [1..3 -> Offsets] :
         LET res == fill3D(fill3D_cuda, [shape |-> ash, dtype |-> "complex64"],
                           [shape |-> bsh, dtype |-> "complex64"], offset, FALSE)
         IN  /\ fill3D_cuda' = res.cache
             /\ call' = res.call
             /\ asked' = asked \cup Asked(res.call.events)
    /\ UNCHANGED <<Ctmp, max_abs2_cuda, num_stdevs, queue, buf, r, std, kernel_gpu>>

Fill3DTyped ==
    /\ call = NoCall
    /\ \E ash \in FillTypeShapes, bsh \in FillTypeShapes, dt \in FillDtypePairs,
          loadFails \in BOOLEAN :
         LET res == fill3D(fill3D_cuda, [shape |-> ash, dtype |-> dt[1]],
                           [shape |-> bsh, dtype |-> dt[2]], <<0, 0, 0>>, loadFails)
         IN  /\ fill3D_cuda' = res.cache
             /\ call' = res.call
             /\ asked' = asked \cup Asked(res.call.events)
    /\ UNCHANGED <<Ctmp, max_abs2_cuda, num_stdevs, queue, buf, r, std, kernel_gpu>>

CropPadShapes == UNION {[1..n -> Extents] : n \in 1..3} \cup FillTypeShapes

CropPad2dSimple ==
    /\ call = NoCall
    /\ \E ash \in CropPadShapes, bsh \in CropPadShapes, loadFails \in BOOLEAN :
         LET res == crop_pad_2d_simple(fill3D_cuda,
                                       [shape |-> ash, dtype |-> "complex64"],
                                       [shape |-> bsh, dtype |-> "complex64"],
                                       loadFails)
         IN  /\ fill3D_cuda' = res.cache
             /\ call' = res.call
             /\ asked' = asked \cup Asked(res.call.events)
    /\ UNCHANGED <<Ctmp, max_abs2_cuda, num_stdevs, queue, buf, r, std, kernel_gpu>>

----------------------------------------------------------------------------
(* GaussianSmoothingKernel: convolution *)

\* lines 351-352
blockdim_x == 4

blockdim_y == 16

\* np.dtype(np.complex64).itemsize, np.dtype(np.float32).itemsize
complex64_itemsize == 8

float32_itemsize == 4

\* Faulty variant: the whole of the 48 KiB
max_shared_per_block_Full == 48 * 1024

\* line 356
max_shared_per_block == (48 * 1024) \div 2

\* line 357 (the division by 2 is exact)
max_shared_per_block_complex == (max_shared_per_block \div 2) * float32_itemsize

\* line 358
max_kernel_radius == max_shared_per_block_complex \div blockdim_y

\* line 376: number of entries of kernel_gpu
kernel_gpu_len == max_kernel_radius

\* Faulty variant: the activation threshold with >= for >
ConvPassRuns_Inclusive(S) == S >= 1

\* lines 417, 447, 474-476: std > 0.1, with std = S/10
ConvPassRuns(S) == S > 1

\* int(x) of the rational num/den, den > 0: truncation toward zero
IntOf(num, den) == IF num >= 0 THEN num \div den ELSE 0 - ((0 - num) \div den)

\* Faulty variant: the radius rounded up
ConvRadius_Ceil(N, S) == 0 - ((0 - (2 * N * S + 10)) \div 20)

\* lines 418, 448: r = int(num_stdevs * std + 0.5), with std = S/10
ConvRadius(N, S) == IntOf(2 * N * S + 10, 20)

\* Faulty variant: the standard deviation is not compared
ConvNeedsTaps_RadiusOnly(rr, S, st) == rr # st.r

\* lines 421, 451: the taps are recomputed and transferred
ConvNeedsTaps(rr, S, st) == rr # st.r \/ S # st.std

\* lines 430-433 and 461-464: the shared memory of a pass
ConvShared(axis, rr) ==
    IF axis = "row"
    THEN LET bx == blockdim_x
             by == blockdim_y
         IN  (bx + 2 * rr) * by * complex64_itemsize
    ELSE LET bx == blockdim_y
             by == blockdim_x
         IN  (by + 2 * rr) * bx * complex64_itemsize

\* lines 437-438 and 468-469
ConvBlock(axis) ==
    IF axis = "row" THEN <<blockdim_x, blockdim_y, 1>> ELSE <<blockdim_y, blockdim_x, 1>>

ConvGrid(axis, y, x, batches) ==
    LET blk == ConvBlock(axis)
    IN  <<(y + blk[1] - 1) \div blk[1], (x + blk[2] - 1) \div blk[2], batches>>

\* The content of a buffer: where it came from and the passes applied since
Content(src) == [src |-> src, passes |-> <<>>]

\* One pass (lines 417-443 for the row pass, 447-471 for the column pass) on
\* the running state st of the call: instance attributes, events so far,
\* buffer contents, the buffers the pass reads and writes, and the error
ConvPass(st, axis, S, N, y, x, batches) ==
    LET rr == ConvRadius(N, S)
        needs == ConvNeedsTaps(rr, S, st)
        st1 == IF needs
               THEN [st EXCEPT !.events = Append(@, [ev |-> "upload", n |-> rr + 1,
                                                      r |-> rr, std |-> S]),
                               !.r = rr, !.std = S,
                               !.kernel_gpu = [r |-> rr, std |-> S]]
               ELSE st
        shared == ConvShared(axis, rr)
        launch == Launch(IF axis = "row" THEN "convolution_row" ELSE "convolution_col",
                         ConvGrid(axis, y, x, batches), ConvBlock(axis), shared,
                         [src |-> st.input, dst |-> st.output, y |-> y, x |-> x,
                          r |-> rr, taps |-> st1.kernel_gpu])
        written == [src |-> st.buf[st.input].src,
                    passes |-> Append(st.buf[st.input].passes,
                                      [axis |-> axis, r |-> rr,
                                       taps |-> st1.kernel_gpu])]
    IN  IF rr > max_kernel_radius
        THEN [st EXCEPT !.err = "ValueError", !.msg = "kernel too large"]
        ELSE IF needs /\ rr + 1 > kernel_gpu_len
        THEN [st EXCEPT !.err = "ValueError", !.msg = "taps do not fit kernel_gpu"]
        ELSE IF shared > max_shared_per_block
        THEN [st1 EXCEPT !.err = "MemoryError", !.msg = "shared memory"]
        ELSE [st1 EXCEPT !.events = Append(@, launch),
                         !.buf = [@ EXCEPT ![st.output] = written],
                         !.input = IF axis = "row" THEN st.output ELSE @,
                         !.output = IF axis = "row" THEN "data" ELSE @]

\* Faulty variant: the copy made only when the row pass ran alone
ConvCopiesBack_RowOnly(stdx, stdy) ==
    ConvPassRuns(stdx) /\ ~ConvPassRuns(stdy)

\* Faulty variant: tmp is copied into data also when no pass ran
ConvCopiesBack_UnlessBoth(stdx, stdy) ==
    ~(ConvPassRuns(stdx) /\ ConvPassRuns(stdy))

\* lines 474-479: which way the call ends; TRUE when tmp is copied into data
ConvCopiesBack(stdx, stdy) ==
    ~(~ConvPassRuns(stdx) /\ ~ConvPassRuns(stdy))
    /\ ~(ConvPassRuns(stdx) /\ ConvPassRuns(stdy))

\* convolution(data, mfs, tmp) with mfs = (stdy, stdx); tmp is None or an array
convolution(inst, data, mfs, tmp) ==
    LET frame == [op |-> "convolution", data |-> data, mfs |-> mfs, tmp |-> tmp]
        ndims == Len(data.shape)
        tmpArr == IF tmp = None THEN data ELSE tmp
        buf0 == [b \in {"data", "tmp"} |->
                   IF b = "data" THEN Content("data")
                   ELSE IF tmp = None THEN Content("uninit") ELSE Content("tmp")]
        st0 == [r |-> inst.r, std |-> inst.std, kernel_gpu |-> inst.kernel_gpu,
                events |-> <<>>, buf |-> buf0, input |-> "data", output |-> "tmp",
                err |-> "", msg |-> ""]
        end(st, how, msg) ==
            [inst |-> [inst EXCEPT !.r = st.r, !.std = st.std,
                                   !.kernel_gpu = st.kernel_gpu],
             call |-> frame @@ [outcome |-> how, msg |-> msg, events |-> st.events,
                                buf |-> st.buf]]
    IN  IF tmpArr.shape # data.shape \/ tmpArr.dtype # data.dtype
        THEN end(st0, "AssertionError", "tmp")
        ELSE IF ndims \notin {1, 2, 3}
        THEN end(st0, "NotImplementedError", "0 < ndims <= 3")
        ELSE
        LET batches == IF ndims = 3 THEN data.shape[1] ELSE 1
            y == IF ndims = 3 THEN data.shape[2] ELSE data.shape[1]
            x == IF ndims = 3 THEN data.shape[3]
                 ELSE IF ndims = 2 THEN data.shape[2] ELSE 1
            stdy == mfs[1]
            stdx == IF ndims = 1 THEN 0 ELSE mfs[2]
            st1 == IF ConvPassRuns(stdx)
                   THEN ConvPass(st0, "row", stdx, inst.num_stdevs, y, x, batches)
                   ELSE st0
            st2 == IF ConvPassRuns(stdy)
                   THEN ConvPass(st1, "col", stdy, inst.num_stdevs, y, x, batches)
                   ELSE st1
            st3 == IF ConvCopiesBack(stdx, stdy)
                   THEN [st2 EXCEPT !.events = Append(@, [ev |-> "copy", src |-> "tmp",
                                                          dst |-> "data"]),
                                    !.buf = [@ EXCEPT !["data"] = st2.buf["tmp"]]]
                   ELSE st2
        IN  IF st1.err # "" THEN end(st1, st1.err, st1.msg)
            ELSE IF st2.err # "" THEN end(st2, st2.err, st2.msg)
            ELSE end(st3, "ok", "")

ConvStds == (0..MaxStd) \cup {237, 7680, 7690}

ConvShapes == UNION {[1..n -> 1..MaxDim] : n \in 1..3} \cup {<<1, 1, 1, 1>>}

ConvInst == [num_stdevs |-> num_stdevs, r |-> r, std |-> std, kernel_gpu |-> kernel_gpu]

Convolution ==
    /\ call = NoCall
    /\ \E shape \in ConvShapes, mfs \in ConvStds \X ConvStds, tmpGiven \in BOOLEAN :
         LET data == [shape |-> shape, dtype |-> "complex64"]
             res == convolution(ConvInst, data, mfs, IF tmpGiven THEN data ELSE None)
         IN  /\ r' = res.inst.r
             /\ std' = res.inst.std
             /\ kernel_gpu' = res.inst.kernel_gpu
             /\ call' = res.call
    /\ UNCHANGED <<Ctmp, fill3D_cuda, max_abs2_cuda, asked, num_stdevs, queue, buf>>

\* A caller's tmp of another shape or type
ConvolutionBadTmp ==
    /\ call = NoCall
    /\ \E shape \in ConvShapes, mfs \in {<<0, 0>>, <<2, 2>>}, bad \in {"shape", "dtype"} :
         LET data == [shape |-> shape, dtype |-> "complex64"]
             tmp == IF bad = "shape"
                    THEN [shape |-> shape \o <<1>>, dtype |-> "complex64"]
                    ELSE [shape |-> shape, dtype |-> "complex128"]
             res == convolution(ConvInst, data, mfs, tmp)
         IN  /\ r' = res.inst.r
             /\ std' = res.inst.std
             /\ kernel_gpu' = res.inst.kernel_gpu
             /\ call' = res.call
    /\ UNCHANGED <<Ctmp, fill3D_cuda, max_abs2_cuda, asked, num_stdevs, queue, buf>>

----------------------------------------------------------------------------
(* GaussianSmoothingKernel: convolution in steps, with the stream self.queue *)

\* The host runs lines 388-479 in order.  A launch with stream=self.queue
\* (lines 439-440, 470-471) is held by the stream and runs when the stream gets
\* to it, in the order of the launches.  The tap upload (lines 426, 456) and the
\* final copy (line 479) name no stream: they are done when the host has passed
\* them, whatever the stream still holds.  call.st is the running state of the
\* call as ConvPass keeps it, with st.buf what data and tmp hold if every launch
\* has run before the host goes on; buf is what they hold on the device.

InStep(pc) == "pc" \in DOMAIN call /\ call.pc = pc

\* The frame with the host at pc and the running state st
ConvAt(f, st, pc) ==
    [f EXCEPT !.pc = pc, !.st = st,
              !.outcome = IF pc # "done" THEN "running"
                          ELSE IF st.err = "" THEN "ok" ELSE st.err,
              !.msg = st.msg, !.events = st.events, !.buf = st.buf]

\* lines 388-412: tmp is created or checked, the dimensions are checked
ConvBegin ==
    /\ call = NoCall
    /\ queue = <<>>
    /\ \E shape \in ConvShapes, mfs \in ConvStds \X ConvStds, tmpGiven \in BOOLEAN :
         LET data == [shape |-> shape, dtype |-> "complex64"]
             tmp == IF tmpGiven THEN data ELSE None
             tmpArr == IF tmp = None THEN data ELSE tmp
             buf0 == [b \in {"data", "tmp"} |->
                        IF b = "data" THEN Content("data")
                        ELSE IF tmp = None THEN Content("uninit") ELSE Content("tmp")]
             st0 == [r |-> r, std |-> std, kernel_gpu |-> kernel_gpu,
                     events |-> <<>>, buf |-> buf0, input |-> "data", output |-> "tmp",
                     err |-> "", msg |-> ""]
             frame == [op |-> "convolution", data |-> data, mfs |-> mfs, tmp |-> tmp,
                       pc |-> "row", st |-> st0, outcome |-> "running", msg |-> "",
                       events |-> <<>>, buf |-> buf0]
         IN  /\ buf' = buf0
             /\ call' =
                  IF tmpArr.shape # data.shape \/ tmpArr.dtype # data.dtype
                  THEN ConvAt(frame, [st0 EXCEPT !.err = "AssertionError",
                                                 !.msg = "tmp"], "done")
                  ELSE IF Len(shape) \notin {1, 2, 3}
                  THEN ConvAt(frame, [st0 EXCEPT !.err = "NotImplementedError",
                                                 !.msg = "0 < ndims <= 3"], "done")
                  ELSE frame
    /\ UNCHANGED <<Ctmp, fill3D_cuda, max_abs2_cuda, asked, num_stdevs, queue, r, std,
                   kernel_gpu>>

\* One pass of the call in `call`: the host uploads the taps if it needs to and
\* hands the launch to the stream; an error ends the call
ConvStep(axis, S, next) ==
    LET shape == call.data.shape
        ndims == Len(shape)
        batches == IF ndims = 3 THEN shape[1] ELSE 1
        y == IF ndims = 3 THEN shape[2] ELSE shape[1]
        x == IF ndims = 3 THEN shape[3] ELSE IF ndims = 2 THEN shape[2] ELSE 1
        st1 == IF ConvPassRuns(S)
               THEN ConvPass(call.st, axis, S, num_stdevs, y, x, batches)
               ELSE call.st
    IN  /\ r' = st1.r
        /\ std' = st1.std
        /\ kernel_gpu' = st1.kernel_gpu
        /\ queue' = IF ConvPassRuns(S) /\ st1.err = ""
                    THEN Append(queue, st1.events[Len(st1.events)])
                    ELSE queue
        /\ call' = ConvAt(call, st1, IF st1.err # "" THEN "done" ELSE next)
        /\ UNCHANGED <<Ctmp, fill3D_cuda, max_abs2_cuda, asked, num_stdevs, buf>>

\* lines 417-443
ConvRow ==
    /\ InStep("row")
    /\ ConvStep("row", IF Len(call.data.shape) = 1 THEN 0 ELSE call.mfs[2], "col")

\* lines 447-471
ConvCol ==
    /\ InStep("col")
    /\ ConvStep("col", call.mfs[1], "end")

\* lines 474-479: the copy of tmp into data, which names no stream
ConvEnd ==
    /\ InStep("end")
    /\ LET stdy == call.mfs[1]
           stdx == IF Len(call.data.shape) = 1 THEN 0 ELSE call.mfs[2]
           st2 == call.st
           st3 == [st2 EXCEPT !.events = Append(@, [ev |-> "copy", src |-> "tmp",
                                                    dst |-> "data"]),
                              !.buf = [@ EXCEPT !["data"] = st2.buf["tmp"]]]
       IN  IF ConvCopiesBack(stdx, stdy)
           THEN /\ buf' = [buf EXCEPT !["data"] = buf["tmp"]]
                /\ call' = ConvAt(call, st3, "done")
           ELSE /\ buf' = buf
                /\ call' = ConvAt(call, st2, "done")
    /\ UNCHANGED <<Ctmp, fill3D_cuda, max_abs2_cuda, asked, num_stdevs, queue, r, std,
                   kernel_gpu>>

\* The stream runs its oldest launch: the kernel reads its source and the tap
\* buffer as they are now, and writes its destination
StreamRun ==
    /\ queue # <<>>
    /\ LET l == Head(queue)
           read == buf[l.a.src]
           pass == [axis |-> IF l.kernel = "convolution_row" THEN "row" ELSE "col",
                    r |-> l.a.r, taps |-> kernel_gpu]
       IN  buf' = [buf EXCEPT ![l.a.dst] = [src |-> read.src,
                                            passes |-> Append(read.passes, pass)]]
    /\ queue' = Tail(queue)
    /\ UNCHANGED <<Ctmp, fill3D_cuda, max_abs2_cuda, asked, num_stdevs, r, std,
                   kernel_gpu, call>>

----------------------------------------------------------------------------
(* MassCenterKernel: mass_center *)

\* line 507
threadsPerBlock == 256

\* lines 550, 592: the number of components gathered
MassCenterComponents(n) == IF n > 1 THEN 3 ELSE 2

\* Faulty variant: the 2D case writes the buffer of the 3D case
MassCenterLastDimDst_NSum(ndim) == "n_sum"

\* lines 575, 585: the buffer the last-axis kernel writes
MassCenterLastDimDst(ndim) == IF ndim >= 3 THEN "n_sum" ELSE "m_sum"

\* Faulty variant: the division gives infinity, as a float32 division would
MassCenterReciprocal_Inf(zeroSum) == IF zeroSum THEN "inf" ELSE "finite"

\* line 545: 1. / total_sum.item() divides Python floats: a zero total raises
MassCenterReciprocal(zeroSum) == IF zeroSum THEN "ZeroDivisionError" ELSE "finite"

\* mass_center(array); zeroSum: the elements of the array sum to 0
mass_center(array, zeroSum) ==
    LET frame == [op |-> "mass_center", array |-> array, zeroSum |-> zeroSum]
        ndim == Len(array.shape)
        end(how, events, outLen) ==
            frame @@ [outcome |-> how, events |-> events, outLen |-> outLen]
    IN  IF array.dtype # "float32" THEN end("NotImplementedError", <<>>, 0)
        ELSE IF ndim < 2 THEN end("IndexError", <<>>, 0)
        ELSE
        LET i == array.shape[1]
            m == array.shape[2]
            n == IF ndim >= 3 THEN array.shape[3] ELSE 1
            total == <<Launch("sum", <<1, 1, 1>>, <<1, 1, 1>>, 0, [dst |-> "total_sum"]),
                       [ev |-> "get", src |-> "total_sum"]>>
            first == <<Launch("indexed_sum_middim", <<i, 1, 1>>,
                              <<threadsPerBlock, 1, 1>>, threadsPerBlock * 4,
                              [dst |-> "i_sum", dims |-> <<1, i, n * m>>])>>
            rest == IF ndim >= 3
                    THEN <<Launch("indexed_sum_middim", <<m, 1, 1>>,
                                  <<threadsPerBlock, 1, 1>>, threadsPerBlock * 4,
                                  [dst |-> "m_sum", dims |-> <<i, n, m>>]),
                           Launch("indexed_sum_lastdim", <<1, (n + 32 - 1) \div 32, 1>>,
                                  <<32, 32, 1>>, 32 * 32 * 4,
                                  [dst |-> MassCenterLastDimDst(ndim),
                                   dims |-> <<i * m, n>>])>>
                    ELSE <<Launch("indexed_sum_lastdim", <<1, (m + 32 - 1) \div 32, 1>>,
                                  <<32, 32, 1>>, 32 * 32 * 4,
                                  [dst |-> MassCenterLastDimDst(ndim),
                                   dims |-> <<i, m>>])>>
            final == <<Launch("final_sums", <<MassCenterComponents(n), 1, 1>>,
                              <<256, 1, 1>>, 256 * 4,
                              [src |-> <<"i_sum", "m_sum", "n_sum">>, dst |-> "out",
                               i |-> i, m |-> m, n |-> n])>>
        IN  IF MassCenterReciprocal(zeroSum) = "ZeroDivisionError"
            THEN end("ZeroDivisionError", total, 0)
            ELSE end("ok", total \o first \o rest \o final, MassCenterComponents(n))

MassShapes == UNION {[1..n -> 1..MaxDim] : n \in 1..4}

MassCenter ==
    /\ call = NoCall
    /\ \E shape \in MassShapes, dtype \in {"float32", "float64"}, zeroSum \in BOOLEAN :
         call' = mass_center([shape |-> shape, dtype |-> dtype], zeroSum)
    /\ UNCHANGED <<Ctmp, fill3D_cuda, max_abs2_cuda, asked, num_stdevs, queue, buf, r, std, kernel_gpu>>

----------------------------------------------------------------------------
(* InterpolatedShiftKernel: interpolate_shift *)

\* The components of shift (float32 after line 655) are held in units of 1e-7
ShiftUnit == 10000000

\* line 676: the threshold 1e-6, in units of 1e-7
ShiftEps == 10

\* lines 648-649: BDIM_X = BDIM_Y = 32
ShiftBlock == 32

Abs(x) == IF x < 0 THEN 0 - x ELSE x

\* np.modf: the integer part, with the sign of the number
ModfInt(q) == IF q >= 0 THEN q \div ShiftUnit ELSE 0 - ((0 - q) \div ShiftUnit)

\* np.modf: the fractional part, with the sign of the number
ModfFrac(q) == q - ModfInt(q) * ShiftUnit

\* Faulty variant: the conversion rounds down
ToInt32_Floor(q) == q \div ShiftUnit

\* np.int32 of a float32: the conversion drops the fraction (towards zero)
ToInt32(q) == IF q >= 0 THEN q \div ShiftUnit ELSE 0 - ((0 - q) \div ShiftUnit)

\* Faulty variant: every array of two or more axes is taken
ShiftDims_AnyRank(shape) == <<1, shape[1], shape[Len(shape)]>>

\* lines 660-665: items, rows, columns; None for an unsupported rank
ShiftDims(shape) ==
    IF Len(shape) = 3 THEN shape
    ELSE IF Len(shape) = 2 THEN <<1>> \o shape
    ELSE None

\* lines 673-674, 694: grid and shared memory of the launches
ShiftGrid(dims) ==
    <<(dims[2] + 31) \div ShiftBlock, (dims[3] + 31) \div ShiftBlock, dims[1]>>

ShiftShared == (32 + 2) * (32 + 2) * 8 + 32 * (32 + 2) * 8

\* interpolate_shift(array, shift): the frame it leaves.  out is what the call
\* returns: the input buffer itself ("array") or the buffer of line 672 ("fresh").
interpolate_shift(array, shift) ==
    LET frame == [op |-> "interpolate_shift", array |-> array, shift |-> shift]
        fail(msg) == frame @@ [outcome |-> "NotImplementedError", msg |-> msg,
                               events |-> <<>>, out |-> "none"]
        dims == ShiftDims(array.shape)
    IN  IF Len(shift) # 2 THEN fail("Shift only applied to 2D array.")
        ELSE IF array.dtype # "complex64"
        THEN fail("Only complex single precision supported")
        ELSE IF dims = None
        THEN fail("Only 2- or 3-dimensional arrays supported")
        ELSE
        LET offsetRow == shift[1]
            offsetCol == shift[2]
            alloc == <<[ev |-> "alloc", what |-> "out", size |-> Prod(array.shape)]>>
            end(events, out) == frame @@ [outcome |-> "ok", msg |-> "",
                                          events |-> alloc \o events, out |-> out]
            launch(kernel, offtype, offsets, shared) ==
                Launch(kernel, ShiftGrid(dims), <<ShiftBlock, ShiftBlock, 1>>, shared,
                       [src |-> "array", dst |-> "fresh", rows |-> dims[2],
                        columns |-> dims[3], offtype |-> offtype,
                        offsets |-> offsets])
        IN  IF Abs(ModfFrac(offsetRow)) < ShiftEps /\ Abs(ModfFrac(offsetCol)) < ShiftEps
            THEN IF ModfInt(offsetRow) = 0 /\ ModfInt(offsetCol) = 0
                 THEN end(<<>>, "array")
                 ELSE end(<<launch("integer_shift_kernel", "int32",
                                   <<ToInt32(offsetRow), ToInt32(offsetCol)>>, 0)>>,
                          "fresh")
            ELSE end(<<launch("linear_interpolate_kernel", "float32",
                              <<offsetRow, offsetCol>>, ShiftShared)>>,
                     "fresh")

\* shift components: whole numbers, plus or minus less than the threshold, the
\* threshold itself, and a half
ShiftVals == {i * ShiftUnit + d : i \in (0 - MaxShift)..MaxShift,
                                  d \in {0, 5, 0 - 5, ShiftEps, ShiftUnit \div 2}}

Shifts == [1..2 -> ShiftVals] \cup {<<>>, <<0>>, <<0, 0, 0>>}

ShiftShapes == UNION {[1..n -> 1..MaxDim] : n \in 1..4}

InterpolateShift ==
    /\ call = NoCall
    /\ \E shape \in ShiftShapes, dtype \in {"complex64", "complex128"},
          shift \in Shifts :
         call' = interpolate_shift([shape |-> shape, dtype |-> dtype], shift)
    /\ UNCHANGED <<Ctmp, fill3D_cuda, max_abs2_cuda, asked, num_stdevs, queue, buf, r, std, kernel_gpu>>

----------------------------------------------------------------------------
(* TransposeKernel: transpose *)

\* lines 89, 103: BDIM = 16
TransposeBlock == 16

\* transpose(input, output): the frame it leaves.  output.shape[1] of line 96
\* is an IndexError on an output of fewer than two axes.
transpose(input, output) ==
    LET frame == [op |-> "transpose", input |-> input, output |-> output]
        fail(how, msg) == frame @@ [outcome |-> how, msg |-> msg, events |-> <<>>]
    IN  IF Len(input.shape) # 2
        THEN fail("ValueError", "Only 2D tranpose is supported - reshape as desired")
        ELSE IF Len(output.shape) < 2
        THEN fail("IndexError", "tuple index out of range")
        ELSE IF input.shape[1] # output.shape[2] \/ input.shape[2] # output.shape[1]
        THEN fail("ValueError", "Input/Output must be of flipped shape")
        ELSE IF input.dtype # "int32" \/ output.dtype # "int32"
        THEN fail("ValueError", "Only int types are supported at the moment")
        ELSE frame @@
             [outcome |-> "ok", msg |-> "",
              events |-> <<Launch("transpose",
                                  <<(input.shape[2] + 15) \div TransposeBlock,
                                    (input.shape[1] + 15) \div TransposeBlock, 1>>,
                                  <<TransposeBlock, TransposeBlock, 1>>, 0,
                                  [src |-> "input", dst |-> "output",
                                   width |-> input.shape[2],
                                   height |-> input.shape[1]])>>]

TransposeShapes == UNION {[1..n -> 1..MaxDim] : n \in 1..3}

TransposeDtypes == {"int32", "int64", "float32"}

Transpose ==
    /\ call = NoCall
    /\ \E ish \in TransposeShapes, osh \in TransposeShapes,
          idt \in TransposeDtypes, odt \in TransposeDtypes :
         call' = transpose([shape |-> ish, dtype |-> idt], [shape |-> osh, dtype |-> odt])
    /\ UNCHANGED <<Ctmp, fill3D_cuda, max_abs2_cuda, asked, num_stdevs, queue, buf, r, std, kernel_gpu>>

----------------------------------------------------------------------------
(* MaxAbs2Kernel: max_abs2 *)

\* line 126: bx
MaxAbs2Block == 64

\* Faulty variant: the row count is left out of the key
MaxAbs2Version_NoRows(X, out, gy) == <<map2ctype(X.dtype), map2ctype(out.dtype), 0>>

\* line 127: the key of the kernel variant
MaxAbs2Version(X, out, gy) == <<map2ctype(X.dtype), map2ctype(out.dtype), gy>>

\* Faulty variant: the cache is never found to hold the variant
MaxAbs2Cached_Never(cache, version) == FALSE

\* line 128: version in self.max_abs2_cuda
MaxAbs2Cached(cache, version) == \E e \in cache : e.version = version

MaxAbs2Entry(cache, version) == CHOOSE e \in cache : e.version = version

\* Faulty variant: the entry is stored whether or not the provider gave the kernels
MaxAbs2Store_Always(cache, version, gy, dtype, raised) ==
    cache \cup {[version |-> version, scratchmem |-> gy, dtype |-> dtype]}

\* lines 128-140: the entry is stored once load_kernel has returned
MaxAbs2Store(cache, version, gy, dtype, raised) ==
    IF raised THEN cache
    ELSE cache \cup {[version |-> version, scratchmem |-> gy, dtype |-> dtype]}

\* lines 148-154: the two launches
MaxAbs2Events(firstdims, rows, cols, gy, entry) ==
    <<Launch("max_abs2_step1", <<1, gy, 1>>, <<MaxAbs2Block, 1, 1>>, 0,
             [src |-> "X", firstdims |-> firstdims, rows |-> rows, cols |-> cols,
              dst |-> "scratch", dstsize |-> entry.scratchmem,
              dsttype |-> entry.dtype]),
      Launch("max_abs2_step2", <<1, 1, 1>>, <<MaxAbs2Block, 1, 1>>, 0,
             [src |-> "scratch", n |-> gy, dst |-> "out"])>>

\* max_abs2(X, out): the frame it leaves and the variant cache after it.
\* loadFails: whether load_kernel raises when it is asked for a variant.
max_abs2(cache, X, out, loadFails) ==
    LET frame == [op |-> "max_abs2", X |-> X, out |-> out]
        end(c, how, events) ==
            [cache |-> c, call |-> frame @@ [outcome |-> how, events |-> events]]
    IN  IF Len(X.shape) < 2 THEN end(cache, "IndexError", <<>>)
        ELSE
        LET rows == Last(X.shape, 2)[1]
            cols == Last(X.shape, 2)[2]
            firstdims == Prod(DropLast(X.shape, 2))
            gy == rows
            version == MaxAbs2Version(X, out, gy)
            load == <<[ev |-> "load_kernel", name |-> "max_abs2", version |-> version,
                       raised |-> loadFails]>>
            cache2 == MaxAbs2Store(cache, version, gy, out.dtype, loadFails)
        IN  IF "ValueError" \in {version[1], version[2]}
            THEN end(cache, "ValueError", <<>>)
            ELSE IF MaxAbs2Cached(cache, version)
            THEN end(cache, "ok",
                     MaxAbs2Events(firstdims, rows, cols, gy,
                                   MaxAbs2Entry(cache, version)))
            ELSE IF loadFails
            THEN end(cache2, "CompilationFailure", load)
            ELSE end(cache2, "ok",
                     load \o <<[ev |-> "alloc", what |-> "scratchmem", size |-> gy,
                                dtype |-> out.dtype]>>
                     \o MaxAbs2Events(firstdims, rows, cols, gy,
                                      MaxAbs2Entry(cache2, version)))

MaxAbs2Shapes == UNION {[1..n -> 1..MaxDim] : n \in 1..4}

MaxAbs2InDtypes == {"complex64", "float32", "float16"}

MaxAbs2 ==
    /\ call = NoCall
    /\ \E shape \in MaxAbs2Shapes, dtype \in MaxAbs2InDtypes, n \in 1..MaxDim,
          loadFails \in BOOLEAN :
         LET res == max_abs2(max_abs2_cuda, [shape |-> shape, dtype |-> dtype],
                             [shape |-> <<n>>, dtype |-> "float32"], loadFails)
         IN  /\ max_abs2_cuda' = res.cache
             /\ call' = res.call
             /\ asked' = asked \cup Asked(res.call.events)
    /\ UNCHANGED <<Ctmp, fill3D_cuda, num_stdevs, queue, buf, r, std, kernel_gpu>>

----------------------------------------------------------------------------
(* DerivativesKernel: delxf, delxb *)

\* lines 254-255: last_axis_block and mid_axis_block
DelxBlock == <<256, 4, 1>>

\* s[i:] of a tuple
SliceFrom(s, i) ==
    IF i < 0 THEN SubSeq(s, Max(Len(s) + i, 0) + 1, Len(s))
    ELSE SubSeq(s, i + 1, Len(s))

\* s[:i] of a tuple
SliceTo(s, i) ==
    IF i < 0 THEN SubSeq(s, 1, Max(Len(s) + i, 0))
    ELSE SubSeq(s, 1, Min(i, Len(s)))

\* lines 283-284, 314-315
DelxAxis(axis, ndim) == IF axis < 0 THEN ndim + axis ELSE axis

\* lines 288, 319: flat_dim
DelxFlat(shape) == Prod(SliceTo(shape, -1))

\* Faulty variant: the axis itself counted among the lower ones
DelxLower_FromAxis(shape, ax) == Prod(SliceFrom(shape, ax))

\* lines 298, 329: lower_dim
DelxLower(shape, ax) == Prod(SliceFrom(shape, ax + 1))

\* lines 299, 330: higher_dim
DelxHigher(shape, ax) == Prod(SliceTo(shape, ax))

\* The body the two methods share (lines 280-308 and 311-339); name is
\* "delxf" or "delxb" and selects the pair of kernels.  dtype is the
\* instance's self.dtype.  input.shape[axis] is an IndexError at axis = ndim.
delx(name, dtype, input, axis) ==
    LET frame == [op |-> name, dtype |-> dtype, input |-> input, axis |-> axis]
        ndim == Len(input.shape)
        ax == DelxAxis(axis, ndim)
        extent == IF ax < 0 THEN input.shape[ndim + ax + 1] ELSE input.shape[ax + 1]
    IN  IF input.dtype # dtype
        THEN frame @@ [outcome |-> "ValueError", events |-> <<>>]
        ELSE IF ax >= ndim \/ ax < 0 - ndim
        THEN frame @@ [outcome |-> "IndexError", events |-> <<>>]
        ELSE IF ax = ndim - 1
        THEN LET flat_dim == DelxFlat(input.shape)
             IN  frame @@
                 [outcome |-> "ok",
                  events |-> <<Launch(IF name = "delxf" THEN "delxf_last"
                                      ELSE "delxb_last",
                                      <<(flat_dim + DelxBlock[2] - 1) \div DelxBlock[2],
                                        1, 1>>,
                                      DelxBlock, 0,
                                      [src |-> "input", dst |-> "out",
                                       flat_dim |-> flat_dim, extent |-> extent])>>]
        ELSE LET lower_dim == DelxLower(input.shape, ax)
                 higher_dim == DelxHigher(input.shape, ax)
             IN  frame @@
                 [outcome |-> "ok",
                  events |-> <<Launch(IF name = "delxf" THEN "delxf_mid"
                                      ELSE "delxb_mid",
                                      <<(lower_dim + DelxBlock[1] - 1) \div DelxBlock[1],
                                        1, higher_dim>>,
                                      DelxBlock, 0,
                                      [src |-> "input", dst |-> "out",
                                       lower_dim |-> lower_dim,
                                       higher_dim |-> higher_dim,
                                       extent |-> extent])>>]

\* lines 279-308
delxf(dtype, input, axis) == delx("delxf", dtype, input, axis)

\* lines 310-339
delxb(dtype, input, axis) == delx("delxb", dtype, input, axis)

DelxShapes == UNION {[1..n -> 1..MaxDim] : n \in 1..3}

\* lines 244-250: the dtypes an instance can be built for
DelxDtypes == {"float32", "complex64"}

\* the axes of an array of n axes, and one beyond on either side
DelxAxes(n) == (0 - n - 1)..n

Delxf ==
    /\ call = NoCall
    /\ \E shape \in DelxShapes, dtype \in DelxDtypes, indt \in DelxDtypes :
         \E axis \in DelxAxes(Len(shape)) :
           call' = delxf(dtype, [shape |-> shape, dtype |-> indt], axis)
    /\ UNCHANGED <<Ctmp, fill3D_cuda, max_abs2_cuda, asked, num_stdevs, queue, buf, r, std, kernel_gpu>>

Delxb ==
    /\ call = NoCall
    /\ \E shape \in DelxShapes, dtype \in DelxDtypes, indt \in DelxDtypes :
         \E axis \in DelxAxes(Len(shape)) :
           call' = delxb(dtype, [shape |-> shape, dtype |-> indt], axis)
    /\ UNCHANGED <<Ctmp, fill3D_cuda, max_abs2_cuda, asked, num_stdevs, queue, buf, r, std, kernel_gpu>>

----------------------------------------------------------------------------
(* The end of a call: the caller takes the result and the frame is gone *)

\* A call in steps has ended when the host has left the function
Ended(f) == "pc" \in DOMAIN f => f.pc = "done"

Return ==
    /\ call # NoCall
    /\ Ended(call)
    /\ call' = NoCall
    /\ UNCHANGED <<Ctmp, fill3D_cuda, max_abs2_cuda, asked, num_stdevs, queue, buf, r, std, kernel_gpu>>

----------------------------------------------------------------------------
(* Specifications *)

\* The instances after construction, with num_stdevs = N
Constructed(N) ==
    /\ Ctmp = None
    /\ fill3D_cuda = {}
    /\ max_abs2_cuda = {}
    /\ asked = {}
    /\ num_stdevs = N
    /\ r = 0
    /\ std = 0
    /\ kernel_gpu = None
    /\ queue = <<>>
    /\ buf = None
    /\ call = NoCall

\* line 343: the default num_stdevs
DefaultNumStdevs == 4

NumStdevs == {1, DefaultNumStdevs}

Init == Constructed(DefaultNumStdevs)

InitConv == \E N \in NumStdevs : Constructed(N)

NextDot == Dot \/ Norm2 \/ Return

SpecDot == Init /\ [][NextDot]_vars

NextCropPad == Fill3DBox \/ Fill3DTyped \/ CropPad2dSimple \/ Return

SpecCropPad == Init /\ [][NextCropPad]_vars

NextConv == Convolution \/ ConvolutionBadTmp \/ Return

SpecConv == InitConv /\ [][NextConv]_vars

\* the convolution in steps and the stream
NextConvSteps == ConvBegin \/ ConvRow \/ ConvCol \/ ConvEnd \/ StreamRun \/ Return

SpecConvSteps == InitConv /\ [][NextConvSteps]_vars

NextMassCenter == MassCenter \/ Return

SpecMassCenter == Init /\ [][NextMassCenter]_vars

NextShift == InterpolateShift \/ Return

SpecShift == Init /\ [][NextShift]_vars

NextTranspose == Transpose \/ Return

SpecTranspose == Init /\ [][NextTranspose]_vars

NextMaxAbs2 == MaxAbs2 \/ Return

SpecMaxAbs2 == Init /\ [][NextMaxAbs2]_vars

NextDelx == Delxf \/ Delxb \/ Return

SpecDelx == Init /\ [][NextDelx]_vars

\* the two wrappers that load their kernels on first use
NextLazy == Fill3DTyped \/ MaxAbs2 \/ Return

SpecLazy == Init /\ [][NextLazy]_vars

Next ==
    NextDot \/ NextCropPad \/ NextConv \/ NextConvSteps \/ NextMassCenter \/ NextShift
    \/ NextTranspose \/ NextMaxAbs2 \/ NextDelx

Spec == Init /\ [][Next]_vars

----------------------------------------------------------------------------
(* Properties *)

IsDeviceWork(e) == e.ev \in {"launch", "upload"}

DeviceWork(events) == SelectSeq(events, IsDeviceWork)

ValidationErrors == {"ValueError", "AssertionError", "MemoryError", "NotImplementedError"}

IsConv == call.op = "convolution"

\* the standard deviations the two passes of the call in `call` work with
ConvStdX == IF Len(call.data.shape) = 1 THEN 0 ELSE call.mfs[2]

ConvStdY == call.mfs[1]

Axes(passes) == [k \in DOMAIN passes |-> passes[k].axis]

\* C1: after a convolution call that returns without error the smoothed result
\* is in data: both passes ran: the column pass wrote data from tmp and nothing
\* is copied; exactly one ran: it wrote tmp and tmp is copied into data as the
\* last step; none ran: nothing happened and data is what it was.
C1_ResultInData ==
    (IsConv /\ call.outcome = "ok") =>
        LET rowRan == ConvStdX > 1
            colRan == ConvStdY > 1
            ev == call.events
            L == Launches(ev)
            result == call.buf["data"]
        IN  /\ result.src = "data"
            /\ Axes(result.passes) =
                 (IF rowRan THEN <<"row">> ELSE <<>>) \o (IF colRan THEN <<"col">> ELSE <<>>)
            /\ (rowRan /\ colRan) =>
                 /\ Len(L) = 2
                 /\ L[2].a.src = "tmp" /\ L[2].a.dst = "data"
                 /\ ev[Len(ev)].ev = "launch"
            /\ (rowRan # colRan) =>
                 /\ Len(L) = 1
                 /\ L[1].a.src = "data" /\ L[1].a.dst = "tmp"
                 /\ ev[Len(ev)] = [ev |-> "copy", src |-> "tmp", dst |-> "data"]
            /\ (~rowRan /\ ~colRan) => ev = <<>>

\* C1 witness: only the column pass ran and tmp was copied back
C1_Witness ==
    /\ IsConv /\ call.outcome = "ok"
    /\ ConvStdX <= 1 /\ ConvStdY > 1
    /\ call.buf["data"].passes # <<>>
    /\ call.events[Len(call.events)].ev = "copy"

\* C2: a wrapper call that ends in a validation error has launched no kernel
\* and uploaded no taps.
C2_NoDeviceWorkBeforeValidationError ==
    (call # NoCall /\ call.outcome \in ValidationErrors) =>
        DeviceWork(call.events) = <<>>

\* C3: a dot/norm2 call that passed its checks leaves a scratch buffer with at
\* least ceil(size/1024) elements, and no step makes the scratch buffer
\* smaller: when it is replaced, the new one is strictly larger.
C3_ScratchCoversAndGrows ==
    [][/\ (call'.op \in {"dot", "norm2"} /\ call'.outcome # "AssertionError") =>
            /\ Ctmp' # None
            /\ Ctmp'.size * 1024 >= call'.B.size
       /\ CtmpSize(Ctmp') >= CtmpSize(Ctmp)
       /\ (Ctmp # None /\ Ctmp' # Ctmp) => Ctmp'.size > Ctmp.size
      ]_vars

\* C3 witness: a call that needs fewer blocks than the scratch buffer, grown
\* twice before, holds
C3_Witness ==
    /\ call.op \in {"dot", "norm2"} /\ call.outcome = "ok"
    /\ Ctmp # None /\ Ctmp.id >= 2
    /\ call.grid < Ctmp.size

IsCropPad == call.op = "crop_pad_2d_simple" /\ call.inner # None

\* C4 (as claimed): crop_pad_2d_simple passes fill3D the offset
\* <<0, (a1 - b1) // 2, (a2 - b2) // 2>> for all positive extents.
C4_OffsetIsHalfDifference ==
    IsCropPad =>
        LET a == Last(call.inner.A.shape, 2)
            b == Last(call.inner.B.shape, 2)
        IN  (a[1] > 0 /\ a[2] > 0 /\ b[1] > 0 /\ b[2] > 0) =>
                call.inner.offset = <<0, (a[1] - b[1]) \div 2, (a[2] - b[2]) \div 2>>

\* floor((a - b) / 2), plus one when a is even and b is odd
HalvesDifference(a, b) ==
    ((a - b) \div 2) + (IF a % 2 = 0 /\ b % 2 = 1 THEN 1 ELSE 0)

\* C4 (amended): the offset is 0 on the batch axis and a // 2 - b // 2 on each
\* of the two last axes, which is (a - b) // 2 except for an even a and an odd
\* b, where it is one more.
C4_OffsetIsDifferenceOfHalves ==
    IsCropPad =>
        LET a == Last(call.inner.A.shape, 2)
            b == Last(call.inner.B.shape, 2)
        IN  /\ Len(call.inner.offset) = 3
            /\ call.inner.offset[1] = 0
            /\ call.inner.offset[2] = HalvesDifference(a[1], b[1])
            /\ call.inner.offset[3] = HalvesDifference(a[2], b[2])

\* C4 witness: an even extent of A over an odd extent of B, and the call went through
C4_Witness ==
    /\ IsCropPad /\ call.outcome = "ok"
    /\ Last(call.inner.A.shape, 2)[1] = 2
    /\ Last(call.inner.B.shape, 2)[1] = 1
    /\ call.inner.offset[2] = 1

\* C5: a mass_center call on a 2D or 3D array that returns gives a vector of as
\* many components as the array has axes, and the final kernel runs over as many.
C5_OutputLengthIsRank ==
    (call.op = "mass_center" /\ call.outcome = "ok" /\ Len(call.array.shape) \in {2, 3}) =>
        LET L == Launches(call.events)
        IN  /\ call.outLen = Len(call.array.shape)
            /\ L[Len(L)].kernel = "final_sums"
            /\ L[Len(L)].grid[1] = Len(call.array.shape)

\* the standard deviation (in tenths) of the pass a convolution launch belongs to
PassStd(l) == IF l.kernel = "convolution_row" THEN ConvStdX ELSE ConvStdY

\* C6 (as claimed): the radius of every pass launched is
\* ceil(num_stdevs * std + 0.5): r - 1 < num_stdevs * std + 0.5 <= r.
C6_RadiusIsCeil ==
    IsConv =>
        \A k \in DOMAIN Launches(call.events) :
            LET l == Launches(call.events)[k]
                x20 == 2 * num_stdevs * PassStd(l) + 10
            IN  20 * (l.a.r - 1) < x20 /\ x20 <= 20 * l.a.r

\* C6 (amended): the radius of every pass launched is num_stdevs * std + 0.5
\* rounded down: r <= num_stdevs * std + 0.5 < r + 1.
C6_RadiusIsFloor ==
    IsConv =>
        \A k \in DOMAIN Launches(call.events) :
            LET l == Launches(call.events)[k]
                x20 == 2 * num_stdevs * PassStd(l) + 10
            IN  /\ PassStd(l) > 1
                /\ 20 * l.a.r <= x20 /\ x20 < 20 * (l.a.r + 1)

\* C6 witness: a pass launched with num_stdevs * std + 0.5 not an integer
C6_Witness ==
    /\ IsConv /\ call.outcome = "ok"
    /\ \E k \in DOMAIN Launches(call.events) :
         LET l == Launches(call.events)[k]
         IN  20 * l.a.r < 2 * num_stdevs * PassStd(l) + 10

IsFill3D == call.op = "fill3D" /\ Len(call.A.shape) >= 3 /\ Len(call.B.shape) >= 3

\* B at offset off has no element in common with A on an axis
NoOverlapOn(aext, bext, off) == off >= aext \/ off <= 0 - bext \/ aext = 0 \/ bext = 0

\* C7: fill3D fails without a launch when B at the offset does not overlap A on
\* one of the three last axes, and every launch passes lengths of at least 1.
C7_NoOverlapFails ==
    IsFill3D =>
        LET L == Launches(call.events)
        IN  /\ (\E k \in 1..3 :
                   NoOverlapOn(FillLim(call.A)[k], FillLim(call.B)[k], call.offset[k]))
               => (call.outcome # "ok" /\ L = <<>>)
            /\ \A i \in DOMAIN L : \A k \in 1..3 : L[i].a.lengths[k] >= 1

\* C7 witness: the offset on the last axis is the extent of A, the other axes overlap
C7_Witness ==
    /\ IsFill3D /\ call.outcome = "AssertionError" /\ call.msg = "lacks overlap"
    /\ call.offset[3] = FillLim(call.A)[3] /\ FillLim(call.A)[3] > 0
    /\ \A k \in 1..2 :
         ~NoOverlapOn(FillLim(call.A)[k], FillLim(call.B)[k], call.offset[k])

\* C8: the box of every fill3D launch starts at max(offset, 0) in A and at
\* max(-offset, 0) in B and ends inside both arrays on each of the last three
\* axes; the kernel is given the extents of A and of B.
C8_BoxInsideBoth ==
    IsFill3D =>
        \A i \in DOMAIN Launches(call.events) :
            LET a == Launches(call.events)[i].a
            IN  /\ a.Alim = FillLim(call.A) /\ a.Blim = FillLim(call.B)
                /\ \A k \in 1..3 :
                     /\ a.Ao[k] = Max(call.offset[k], 0)
                     /\ a.Bo[k] = Max(0 - call.offset[k], 0)
                     /\ a.lengths[k] >= 1
                     /\ a.Ao[k] + a.lengths[k] <= a.Alim[k]
                     /\ a.Bo[k] + a.lengths[k] <= a.Blim[k]

\* C8 witness: a launch with a negative offset on one axis and a positive one
\* on another
C8_Witness ==
    /\ IsFill3D /\ call.outcome = "ok"
    /\ call.offset[2] < 0 /\ call.offset[3] > 0
    /\ Launches(call.events) # <<>>

\* the call in `call` is fill3D of two non-empty arrays of one shape at offset 0
\* whose types have a kernel
IsFullCopy ==
    /\ IsFill3D
    /\ call.offset = <<0, 0, 0>>
    /\ call.A.shape = call.B.shape
    /\ \A k \in DOMAIN call.A.shape : call.A.shape[k] >= 1
    /\ call.A.dtype \in CTyped /\ call.B.dtype \in CTyped
    /\ call.outcome # "CompilationFailure"

C10_NoOp ==
    [][(call'.op = "convolution" /\ call'.mfs[1] <= 1 /\ call'.mfs[2] <= 1) =>
            /\ call'.events = <<>>
            /\ call'.buf["data"] = Content("data")
            /\ r' = r /\ std' = std /\ kernel_gpu' = kernel_gpu
      ]_vars

\* C10 witness: a call with (0.1, 0.1) on an instance that has uploaded taps before
C10_Witness ==
    /\ IsConv /\ call.outcome = "ok"
    /\ call.mfs = <<1, 1>>
    /\ r > 0 /\ kernel_gpu # None

IsShift == call.op = "interpolate_shift"

\* the whole number i with |i| <= |q| < |i| + 1 (q in units of 1e-7)
IntegerPart(q) ==
    CHOOSE i \in (0 - (MaxShift + 1))..(MaxShift + 1) :
        /\ Abs(i) * ShiftUnit <= Abs(q) /\ Abs(q) < (Abs(i) + 1) * ShiftUnit
        /\ (q >= 0 => i >= 0) /\ (q <= 0 => i <= 0)

\* C11: an interpolate_shift call that returns took exactly one of three paths.
\* Both fractional parts below 1e-6 in absolute value and both integer parts 0:
\* no launch, and the input buffer itself is returned.  Both fractional parts
\* below 1e-6 and an integer part not 0: the integer-shift kernel alone, with
\* the integer parts as offsets, writes a fresh buffer.  Otherwise the bilinear
\* kernel alone, with the float offsets, writes a fresh buffer.  No launch
\* writes the input.
C11_OneOfThreePaths ==
    (IsShift /\ call.outcome = "ok") =>
        LET ir == IntegerPart(call.shift[1])
            ic == IntegerPart(call.shift[2])
            fr == call.shift[1] - ir * ShiftUnit
            fc == call.shift[2] - ic * ShiftUnit
            exact == Abs(fr) < 10 /\ Abs(fc) < 10
            L == Launches(call.events)
        IN  /\ (exact /\ ir = 0 /\ ic = 0) => (L = <<>> /\ call.out = "array")
            /\ (exact /\ ~(ir = 0 /\ ic = 0)) =>
                   /\ Len(L) = 1
                   /\ L[1].kernel = "integer_shift_kernel"
                   /\ L[1].a.offtype = "int32"
                   /\ L[1].a.offsets = <<ir, ic>>
                   /\ call.out = "fresh"
            /\ ~exact =>
                   /\ Len(L) = 1
                   /\ L[1].kernel = "linear_interpolate_kernel"
                   /\ L[1].a.offtype = "float32"
                   /\ L[1].a.offsets = call.shift
                   /\ call.out = "fresh"
            /\ \A k \in DOMAIN L : L[k].a.src = "array" /\ L[k].a.dst = "fresh"

\* C11 witness: the integer path taken for a shift just below -1 on the rows
C11_Witness ==
    /\ IsShift /\ call.outcome = "ok"
    /\ call.shift[1] = 0 - ShiftUnit - 5
    /\ Launches(call.events) # <<>>
    /\ Launches(call.events)[1].kernel = "integer_shift_kernel"

\* C12: transpose launches the kernel only if input and output both have two
\* axes, both hold integers and output.shape is input.shape reversed; every other
\* call ends in an error and launches nothing.
C12_LaunchOnlyIfFlipped2D ==
    (call.op = "transpose") =>
        LET valid == /\ Len(call.input.shape) = 2 /\ Len(call.output.shape) = 2
                     /\ call.input.dtype \in {"int32", "int64"}
                     /\ call.output.dtype \in {"int32", "int64"}
                     /\ call.output.shape = <<call.input.shape[2], call.input.shape[1]>>
        IN  /\ Launches(call.events) # <<>> => valid
            /\ ~valid => (call.outcome # "ok" /\ Launches(call.events) = <<>>)

IsMaxAbs2 == call.op = "max_abs2"

\* C13: a max_abs2 call that goes through on an input of B > 1 batch slices
\* gives out one maximum per slice, each from the elements of its slice only:
\* the buffer that carries the first phase's results to the second holds at
\* least one value per slice.
C13_OneMaximumPerSlice ==
    (IsMaxAbs2 /\ call.outcome = "ok" /\ Prod(DropLast(call.X.shape, 2)) > 1) =>
        LET L == Launches(call.events)
            B == Prod(DropLast(call.X.shape, 2))
        IN  /\ Len(L) = 2
            /\ L[1].a.dstsize >= B
            /\ L[2].a.n >= B

IsDot == call.op \in {"dot", "norm2"}

\* C14: a dot call whose arguments differ in dtype or in size ends in an error
\* with nothing allocated (neither the output nor a scratch buffer) and nothing
\* launched, and the instance's scratch buffer is the same object of the same
\* size as before the call.
C14_MismatchFailsFirst ==
    [][(call'.op \in {"dot", "norm2"}
        /\ (call'.A.dtype # call'.B.dtype \/ call'.A.size # call'.B.size)) =>
            /\ call'.outcome = "AssertionError"
            /\ call'.events = <<>>
            /\ Ctmp' = Ctmp
      ]_vars

\* C14 witness: a call with arrays of two sizes failed on an instance that has
\* a scratch buffer
C14_Witness ==
    /\ IsDot /\ call.outcome = "AssertionError"
    /\ call.A.dtype = call.B.dtype /\ call.A.size # call.B.size
    /\ Ctmp # None

\* C15: when load_kernel raises in a max_abs2 or fill3D call, the call ends
\* with that failure, load_kernel was called once in it, nothing was launched,
\* and both variant caches are what they were, without an entry for the
\* variant asked for.
C15_ProviderFailurePropagates ==
    [][(call'.op \in {"max_abs2", "fill3D"}
        /\ \E k \in DOMAIN call'.events :
             IsLoad(call'.events[k]) /\ call'.events[k].raised) =>
            /\ call'.outcome = "CompilationFailure"
            /\ Len(Loads(call'.events)) = 1
            /\ Launches(call'.events) = <<>>
            /\ fill3D_cuda' = fill3D_cuda
            /\ max_abs2_cuda' = max_abs2_cuda
            /\ LET version == Loads(call'.events)[1].version
               IN  /\ version \notin fill3D_cuda'
                   /\ ~MaxAbs2Cached(max_abs2_cuda', version)
      ]_vars

\* C15 witness: load_kernel raised in a max_abs2 call on an instance whose
\* cache holds other variants, and fill3D has loaded a variant too
C15_Witness ==
    /\ IsMaxAbs2 /\ call.outcome = "CompilationFailure"
    /\ max_abs2_cuda # {} /\ fill3D_cuda # {}

IsMassCenter == call.op = "mass_center"

\* C16: a mass_center call on a float32 array of two or more axes whose
\* elements sum to zero ends in an error and gives no output vector; it has
\* launched the total sum and read it back, and nothing after that.
C16_ZeroTotalIsAnError ==
    (IsMassCenter /\ call.zeroSum /\ call.array.dtype = "float32"
     /\ Len(call.array.shape) >= 2) =>
        /\ call.outcome # "ok"
        /\ call.outLen = 0
        /\ Len(call.events) = 2
        /\ call.events[1].ev = "launch" /\ call.events[1].kernel = "sum"
        /\ call.events[2].ev = "get"
        /\ \A k \in DOMAIN Launches(call.events) :
             Launches(call.events)[k].kernel
                 \notin {"indexed_sum_middim", "indexed_sum_lastdim", "final_sums"}

\* C16 witness: a 3D float32 array whose elements sum to zero
C16_Witness ==
    /\ IsMassCenter /\ call.zeroSum
    /\ call.array.dtype = "float32" /\ Len(call.array.shape) = 3
    /\ call.outcome = "ZeroDivisionError"

\* C17: interpolate_shift ends in NotImplementedError, with nothing launched,
\* whenever the array has not 2 or 3 axes, its dtype is not complex64 or the
\* shift has not 2 components; in every other case it goes through.
C17_ValidationOfShift ==
    IsShift =>
        LET bad == \/ Len(call.array.shape) \notin {2, 3}
                   \/ call.array.dtype # "complex64"
                   \/ Len(call.shift) # 2
        IN  /\ bad => (call.outcome = "NotImplementedError"
                       /\ Launches(call.events) = <<>>)
            /\ ~bad => call.outcome = "ok"

\* C17 witness: a complex64 array of four axes with a shift of two components
\* was refused
C17_Witness ==
    /\ IsShift /\ call.outcome = "NotImplementedError"
    /\ Len(call.array.shape) = 4 /\ call.array.dtype = "complex64"
    /\ Len(call.shift) = 2

ReadsTmp(e) == (e.ev = "launch" /\ e.a.src = "tmp") \/ e.ev = "copy"

WritesTmp(e) == e.ev = "launch" /\ e.a.dst = "tmp"

\* C18: the same convolution call (same data, same standard deviations, same
\* instance state) made with the caller's tmp and made without leaves the same
\* content in data, built from data alone, and ends the same way; whatever
\* reads tmp in the call (the column pass after a row pass, the final copy)
\* comes after a pass of the same call that wrote tmp.
C18_ResultIndependentOfTmp ==
    [][(call'.op = "convolution" /\ call'.outcome # "AssertionError") =>
            LET other == convolution(ConvInst, call'.data, call'.mfs,
                                     IF call'.tmp = None THEN call'.data ELSE None)
                ev == call'.events
            IN  /\ other.call.buf["data"] = call'.buf["data"]
                /\ other.call.outcome = call'.outcome
                /\ call'.buf["data"].src = "data"
                /\ \A k \in DOMAIN ev :
                     ReadsTmp(ev[k]) => \E j \in 1..(k - 1) : WritesTmp(ev[j])
      ]_vars

\* C18 witness: a call with the caller's tmp in which one pass ran and tmp was
\* copied into data
C18_Witness ==
    /\ IsConv /\ call.outcome = "ok"
    /\ call.tmp # None
    /\ call.events # <<>>
    /\ call.events[Len(call.events)].ev = "copy"
    /\ call.buf["data"].passes # <<>>

IsDelx == call.op \in {"delxf", "delxb"}

DelxKind(kernel) ==
    IF kernel \in {"delxf_last", "delxb_last"} THEN "last" ELSE "mid"

DelxForward(kernel) == kernel \in {"delxf_last", "delxf_mid"}

\* C19: a delxf or delxb call on an axis of the input (-ndim <= axis < ndim)
\* launches one kernel, of its own direction: with ax the axis counted from the
\* front, the last-axis kernel iff ax = ndim - 1, with flat_dim the product of
\* the other extents; else the mid-axis kernel with higher_dim the product of
\* the extents before ax and lower_dim of those after, and
\* higher_dim * extent * lower_dim the size of the array.  The other method
\* launches the same kind of kernel on the same grid with the same arguments.
C19_AxisSelectsKernel ==
    (IsDelx /\ call.input.dtype = call.dtype
     /\ call.axis >= 0 - Len(call.input.shape)
     /\ call.axis < Len(call.input.shape)) =>
        LET shape == call.input.shape
            ndim == Len(shape)
            ax == IF call.axis < 0 THEN call.axis + ndim ELSE call.axis
            L == Launches(call.events)
            other == IF call.op = "delxf" THEN delxb(call.dtype, call.input, call.axis)
                     ELSE delxf(call.dtype, call.input, call.axis)
            O == Launches(other.events)
        IN  /\ call.outcome = "ok"
            /\ Len(L) = 1
            /\ DelxForward(L[1].kernel) <=> call.op = "delxf"
            /\ DelxKind(L[1].kernel) = "last" <=> ax = ndim - 1
            /\ L[1].a.extent = shape[ax + 1]
            /\ ax = ndim - 1 =>
                 /\ L[1].a.flat_dim * shape[ndim] = Prod(shape)
                 /\ L[1].grid = <<CeilDiv(L[1].a.flat_dim, 4), 1, 1>>
            /\ ax # ndim - 1 =>
                 /\ L[1].a.higher_dim = Prod(SubSeq(shape, 1, ax))
                 /\ L[1].a.lower_dim = Prod(SubSeq(shape, ax + 2, ndim))
                 /\ L[1].a.higher_dim * shape[ax + 1] * L[1].a.lower_dim = Prod(shape)
                 /\ L[1].grid = <<CeilDiv(L[1].a.lower_dim, 256), 1, L[1].a.higher_dim>>
            /\ Len(O) = 1
            /\ DelxKind(O[1].kernel) = DelxKind(L[1].kernel)
            /\ DelxForward(O[1].kernel) # DelxForward(L[1].kernel)
            /\ O[1].grid = L[1].grid /\ O[1].block = L[1].block /\ O[1].a = L[1].a

\* C19 witness: delxb on the middle axis of a 3D array, given as -2
C19_Witness ==
    /\ IsDelx /\ call.op = "delxb" /\ call.outcome = "ok"
    /\ Len(call.input.shape) = 3 /\ call.axis = -2
    /\ call.input.shape[3] = 2
    /\ Launches(call.events)[1].kernel = "delxb_mid"

\* C20: a dot call that goes through on n >= 1 elements, g = ceil(n / 1024):
\* g = 1: one launch, and it writes out, not the scratch buffer; g > 1: the
\* first launch runs g blocks and writes the scratch buffer, then one
\* full_reduce launch on a single block reduces g scratch entries into out.
\* out is written by the last launch and by no other.
C20_PhasesOfDot ==
    (IsDot /\ call.outcome = "ok" /\ call.A.size >= 1) =>
        LET g == CeilDiv(call.A.size, 1024)
            L == Launches(call.events)
        IN  /\ g = 1 =>
                 /\ Len(L) = 1
                 /\ L[1].kernel \in {"dot_cuda", "cdot_cuda"}
                 /\ L[1].grid = <<1, 1, 1>>
                 /\ L[1].a.dst = "out"
            /\ g > 1 =>
                 /\ Len(L) = 2
                 /\ L[1].kernel \in {"dot_cuda", "cdot_cuda"}
                 /\ L[1].grid = <<g, 1, 1>>
                 /\ L[1].a.dst = "Ctmp"
                 /\ L[2].kernel = "full_reduce_cuda"
                 /\ L[2].grid = <<1, 1, 1>>
                 /\ L[2].a.src = "Ctmp" /\ L[2].a.n = g
                 /\ Ctmp.size >= g
            /\ \A k \in DOMAIN L : L[k].a.dst = "out" <=> k = Len(L)

\* C20 witness: a call over more than one block, and it went through
C20_Witness ==
    /\ IsDot /\ call.outcome = "ok"
    /\ call.grid > 1
    /\ Len(Launches(call.events)) = 2

IsLazy(f) == f.op \in {"max_abs2", "fill3D"}

\* the variant a max_abs2 or fill3D call works with
LazySignature(f) ==
    IF f.op = "fill3D"
    THEN [name |-> "fill3D", version |-> <<map2ctype(f.B.dtype), map2ctype(f.A.dtype)>>]
    ELSE [name |-> "max_abs2",
          version |-> <<map2ctype(f.X.dtype), map2ctype(f.out.dtype),
                        Last(f.X.shape, 2)[1]>>]

\* whether the cache of the wrapper holds the variant
LazyCached(f3d, ma2, sig) ==
    IF sig.name = "fill3D" THEN sig.version \in f3d
    ELSE \E e \in ma2 : e.version = sig.version

\* C21: load_kernel is asked at most once for each variant over all the
\* max_abs2 and fill3D calls on an instance: no call asks for a variant that an
\* earlier call has asked for.
C21_ProviderAskedOnce ==
    [][IsLazy(call') => Asked(call'.events) \cap asked = {}]_vars

\* C21 (amended): a max_abs2 or fill3D call that gets as far as the cache asks
\* load_kernel, once, iff the cache does not hold the call's variant; a variant
\* is stored when load_kernel returns, under a key that no other pair of types
\* (and row count) has, and a stored entry is never removed or replaced.  So
\* load_kernel returns at most once for each variant; a variant for which it
\* raised is asked for again by the next call with it.
C21_ProviderAskedIffNotCached ==
    [][IsLazy(call') =>
            LET sig == LazySignature(call')
                asks == Asked(call'.events)
            IN  /\ call'.outcome \in {"ok", "CompilationFailure"} =>
                     /\ asks = (IF LazyCached(fill3D_cuda, max_abs2_cuda, sig)
                                THEN {} ELSE {sig})
                     /\ Len(Loads(call'.events)) = Cardinality(asks)
                     /\ call'.outcome = "ok" =>
                          LazyCached(fill3D_cuda', max_abs2_cuda', sig)
                /\ call'.outcome \notin {"ok", "CompilationFailure"} => asks = {}
                /\ fill3D_cuda \subseteq fill3D_cuda'
                /\ max_abs2_cuda \subseteq max_abs2_cuda'
                /\ \A e1 \in max_abs2_cuda', e2 \in max_abs2_cuda' :
                     e1.version = e2.version => e1 = e2
                /\ \A d1 \in CTyped, d2 \in CTyped :
                     map2ctype(d1) = map2ctype(d2) => d1 = d2
      ]_vars

\* C21 witness: a max_abs2 call found its variant in the cache and asked for
\* nothing, on an instance where load_kernel has raised for another variant
C21_Witness ==
    /\ IsMaxAbs2 /\ call.outcome = "ok"
    /\ Loads(call.events) = <<>>
    /\ \E sig \in asked :
         sig.name = "max_abs2" /\ ~MaxAbs2Cached(max_abs2_cuda, sig.version)
    /\ fill3D_cuda # {}

\* the standard deviation (in tenths) a launch of a convolution frame f works with
StdOfLaunch(f, l) ==
    IF l.kernel = "convolution_row"
    THEN (IF Len(f.data.shape) = 1 THEN 0 ELSE f.mfs[2])
    ELSE f.mfs[1]

\* the cached (r, std) before event k of a call that started with (r0, s0)
CacheBefore(ev, k, r0, s0) ==
    LET ups == {j \in 1..(k - 1) : ev[j].ev = "upload"}
    IN  IF ups = {} THEN <<r0, s0>>
        ELSE LET j == CHOOSE j \in ups : \A i \in ups : i <= j
             IN  <<ev[j].r, ev[j].std>>

\* C22: in a convolution call every pass that is launched has uploaded its
\* taps right before iff its (radius, standard deviation) differs from the
\* cached (r, std), and an upload sets the cached pair to the pass's; after any
\* step, with r > 0, the tap buffer holds the r + 1 taps of the cached
\* (r, std), and every pass kernel is launched on the taps of its own radius
\* and standard deviation.
C22_TapsFollowCache ==
    [][/\ r' > 0 => kernel_gpu' = [r |-> r', std |-> std']
       /\ call'.op = "convolution" =>
            LET ev == call'.events
            IN  /\ <<r', std'>> = CacheBefore(ev, Len(ev) + 1, r, std)
                /\ \A k \in DOMAIN ev :
                     /\ ev[k].ev = "upload" => ev[k].n = ev[k].r + 1
                     /\ ev[k].ev = "launch" =>
                          LET own == <<ev[k].a.r, StdOfLaunch(call', ev[k])>>
                              uploaded == k > 1 /\ ev[k - 1].ev = "upload"
                              before == CacheBefore(ev, IF uploaded THEN k - 1 ELSE k,
                                                    r, std)
                          IN  /\ uploaded <=> own # before
                              /\ uploaded => <<ev[k - 1].r, ev[k - 1].std>> = own
                              /\ ev[k].a.taps = [r |-> own[1], std |-> own[2]]
      ]_vars

\* C22 witness: two passes of one radius and two standard deviations (0.3 and
\* 0.2 at four standard deviations: radius 1), each with its own upload
C22_Witness ==
    /\ IsConv /\ call.outcome = "ok"
    /\ call.mfs = <<2, 3>> /\ Len(call.data.shape) = 2
    /\ Len(Launches(call.events)) = 2
    /\ Launches(call.events)[1].a.r = Launches(call.events)[2].a.r
    /\ Len(call.events) = 4

\* C23: every convolution pass is launched with (4 + 2 * radius) * 16 * 8
\* bytes of shared memory, never more than 48 * 1024 / 2; a pass that would
\* need more is not launched and the call fails.
C23_SharedWithinBudget ==
    IsConv =>
        LET L == Launches(call.events)
            N == num_stdevs
            need(S) == (4 + 2 * ((2 * N * S + 10) \div 20)) * 16 * 8
            over(S) == S > 1 /\ need(S) > (48 * 1024) \div 2
        IN  /\ \A k \in DOMAIN L :
                 /\ L[k].shared = (4 + 2 * L[k].a.r) * 16 * 8
                 /\ L[k].shared <= (48 * 1024) \div 2
            /\ over(ConvStdX) =>
                 /\ call.outcome # "ok"
                 /\ \A k \in DOMAIN L : L[k].kernel # "convolution_row"
            /\ over(ConvStdY) =>
                 /\ call.outcome # "ok"
                 /\ \A k \in DOMAIN L : L[k].kernel # "convolution_col"

\* C23 witness: the row pass ran and the column pass, of radius 95, was refused
C23_Witness ==
    /\ IsConv /\ call.outcome = "MemoryError"
    /\ call.mfs[1] = 237
    /\ Len(Launches(call.events)) = 1
    /\ Launches(call.events)[1].kernel = "convolution_row"

\* C24: every entry of the max_abs2 cache has a scratch vector of as many
\* elements as the row count in its key, of the output type in its key; in
\* every call that goes through, the scratch vector handed to both phases has
\* X.shape[-2] elements of out's type, phase 1 runs one block row per element
\* and phase 2 reduces as many.
C24_ScratchIsRowCount ==
    /\ \A e \in max_abs2_cuda :
         e.scratchmem = e.version[3] /\ map2ctype(e.dtype) = e.version[2]
    /\ (IsMaxAbs2 /\ call.outcome = "ok") =>
         LET L == Launches(call.events)
             rows == call.X.shape[Len(call.X.shape) - 1]
         IN  /\ Len(L) = 2
             /\ L[1].a.dst = "scratch" /\ L[2].a.src = "scratch"
             /\ L[1].a.dstsize = rows
             /\ L[1].a.dsttype = call.out.dtype
             /\ L[1].grid = <<1, rows, 1>>
             /\ L[2].a.n = rows

\* C24 witness: a call on two rows served from a cache that also holds a
\* variant for one row
C24_Witness ==
    /\ IsMaxAbs2 /\ call.outcome = "ok"
    /\ Loads(call.events) = <<>>
    /\ call.X.shape[Len(call.X.shape) - 1] = 2
    /\ \E e \in max_abs2_cuda : e.version[3] = 1

\* C25: a mass_center call that goes through issues, in this order: the total
\* sum, the readback of the total, the indexed-sum kernels, and the final_sums
\* kernel last; each of the 2 or 3 buffers final_sums gathers into out has been
\* written by an indexed-sum kernel before it.
C25_OrderOfMassCenter ==
    (IsMassCenter /\ call.outcome = "ok") =>
        LET ev == call.events
            n == Len(ev)
            final == ev[n]
            Indexed == {"indexed_sum_middim", "indexed_sum_lastdim"}
        IN  /\ n >= 4
            /\ ev[1].ev = "launch" /\ ev[1].kernel = "sum"
            /\ ev[2].ev = "get" /\ ev[2].src = "total_sum"
            /\ \A k \in 3..(n - 1) : ev[k].ev = "launch" /\ ev[k].kernel \in Indexed
            /\ final.ev = "launch" /\ final.kernel = "final_sums"
            /\ final.grid[1] \in {2, 3}
            /\ \A c \in 1..final.grid[1] :
                 \E k \in 3..(n - 1) : ev[k].a.dst = final.a.src[c]

\* C25 witness: a 2D array, two components gathered
C25_Witness ==
    /\ IsMassCenter /\ call.outcome = "ok"
    /\ Len(call.array.shape) = 2
    /\ Len(call.events) = 5
    /\ call.events[5].grid[1] = 2

\* C26: in a fill3D call that passes the overlap check, with any offsets and
\* extents, min(offset + B_extent, A_extent) - A_start and
\* min(A_extent - offset, B_extent) - B_start are equal on each of the last
\* three axes, and the call does not fail for lengths not matching.
C26_LengthsAgree ==
    IsFill3D =>
        /\ call.msg # "lengths not matching"
        /\ call.msg \notin {"at least 3D", "same number of dimensions",
                            "same shape but last three", "lacks overlap"} =>
             LET A == Last(call.A.shape, 3)
                 B == Last(call.B.shape, 3)
                 off == call.offset
             IN  \A k \in 1..3 :
                   LET Astart == IF off[k] > 0 THEN off[k] ELSE 0
                       Bstart == IF off[k] < 0 THEN 0 - off[k] ELSE 0
                   IN  Min(off[k] + B[k], A[k]) - Astart
                         = Min(A[k] - off[k], B[k]) - Bstart

\* C26 witness: a call with a negative offset on one axis and a positive one on
\* another, with B reaching over the end of A, that went through
C26_Witness ==
    /\ IsFill3D /\ call.outcome = "ok"
    /\ call.offset[2] < 0 /\ call.offset[3] > 0
    /\ call.offset[3] + Last(call.B.shape, 3)[3] > Last(call.A.shape, 3)[3]

\* C27: a convolution pass whose radius passes the check r <= max_kernel_radius
\* uploads r + 1 taps that fit the tap buffer of max_kernel_radius entries: no
\* call fails at the upload.
C27_AcceptedRadiusFits ==
    IsConv =>
        /\ call.msg # "taps do not fit kernel_gpu"
        /\ \A k \in DOMAIN call.events :
             call.events[k].ev = "upload" => call.events[k].n <= 3072

\* the precondition of C29 on the arguments of a crop_pad_2d_simple call
CropPadArgsFit ==
    /\ Len(call.A.shape) >= 2 /\ Len(call.A.shape) = Len(call.B.shape)
    /\ DropLast(call.A.shape, 2) = DropLast(call.B.shape, 2)
    /\ \A k \in 1..2 : Last(call.A.shape, 2)[k] >= 1 /\ Last(call.B.shape, 2)[k] >= 1

\* what C29 says of a call
CropPadOverlaps ==
    /\ call.inner # None
    /\ call.msg \notin {"lacks overlap", "lengths not matching"}
    /\ call.outcome = "ok" =>
         LET l == Launches(call.events)[1].a.lengths
             a == Last(call.A.shape, 2)
             b == Last(call.B.shape, 2)
         IN  /\ l[1] = Last(call.inner.A.shape, 3)[1]
             /\ l[2] = Min(a[1], b[1]) /\ l[2] >= 1
             /\ l[3] = Min(a[2], b[2]) /\ l[3] >= 1

\* C29: crop_pad_2d_simple on A and B of one rank >= 2, with the same extents
\* but on the last two axes and extents >= 1 on these, never fails for lack of
\* overlap or lengths not matching; the overlap is min(A_extent, B_extent) >= 1
\* long on each of the last two axes and as long as the batch axis on that.
C29_NeverLacksOverlap ==
    (IsCropPad /\ CropPadArgsFit) => CropPadOverlaps

\* C29 (amended): the same, for arrays whose third axis from the end, if they
\* have one, has an extent >= 1 too.
C29_NeverLacksOverlapNonEmpty ==
    (IsCropPad /\ CropPadArgsFit
     /\ (Len(call.A.shape) >= 3 => Last(call.A.shape, 3)[1] >= 1)) =>
        CropPadOverlaps

\* C29 witness: A shorter than B on one axis and longer on the other, in a
\* batch of two
C29_Witness ==
    /\ IsCropPad /\ call.outcome = "ok"
    /\ call.A.shape = <<2, 1, 2>> /\ call.B.shape = <<2, 2, 1>>

\* the launches the stream has run and the final copy have left on the device
\* what the call leaves when every step waits for the one before it
ConvStepsSettled == InStep("done") /\ call.outcome = "ok" /\ queue = <<>>

\* What a kernel of radius rr reads from a tap buffer that holds t: with radius 0
\* the only tap is 1.0, whatever the standard deviation
TapsRead(rr, t) == IF rr = 0 /\ t # None /\ t.r = 0 THEN [r |-> 0, std |-> 0] ELSE t

PassesRead(c) ==
    [k \in DOMAIN c.passes |->
       [c.passes[k] EXCEPT !.taps = TapsRead(c.passes[k].r, c.passes[k].taps)]]

\* C28: in a convolution call on an instance with a stream, every pass kernel the
\* stream has run read the taps of its own radius and standard deviation (the
\* column pass's upload did not replace the row pass's taps before the row
\* kernel ran), and once the call has ended and the stream is empty, data and tmp
\* hold what they hold when the upload and the final copy take effect only after
\* the launches enqueued before them
C28_UnstreamedWorkWaits ==
    /\ "pc" \in DOMAIN call =>
         \A b \in {"data", "tmp"} : \A k \in DOMAIN buf[b].passes :
            \E e \in {"data", "tmp"} : \E j \in DOMAIN call.buf[e].passes :
               PassesRead(buf[b])[k] = PassesRead(call.buf[e])[j]
    /\ ConvStepsSettled =>
         \A b \in {"data", "tmp"} :
            /\ buf[b].src = call.buf[b].src
            /\ PassesRead(buf[b]) = PassesRead(call.buf[b])

====
